---- MODULE Spec2Model ----
(***************************************************************************)
(* Model of the bonus proposal service of Backend/server.js: the           *)
(* bonus_proposals table and its constraints, initializeDatabase with its  *)
(* retry loop, and the four request handlers (health, list, search,        *)
(* create).  Every pool.query is one step: the store executes statements   *)
(* one at a time, and the handlers of different requests interleave        *)
(* between their queries.                                                  *)
(*                                                                         *)
(* Strings that the code inspects (names, employee ids) are sequences of   *)
(* one-character strings; the empty sequence stands for both '' and a      *)
(* missing field, which every test of the code (!x, if (x)) treats alike.  *)
(* A proposalDate is the triple <<year, month, day>> written in the        *)
(* request; bonusAmount is an integer, 0 standing for 0 and for a missing  *)
(* amount (both falsy).                                                    *)
(***************************************************************************)
EXTENDS Integers, Sequences, FiniteSets, TLC

(***************************************************************************)
(* Bounds of the model.                                                    *)
(***************************************************************************)
\* Largest id the SERIAL column hands out in a run of the model.
MaxId == 4

(***************************************************************************)
(* Program constants.                                                      *)
(***************************************************************************)
maxRetries == 5
MinBonus == 100
NameColumnLen == 100

(***************************************************************************)
(* Text.                                                                   *)
(***************************************************************************)
UpperLetters ==
  <<"A","B","C","D","E","F","G","H","I","J","K","L","M",
    "N","O","P","Q","R","S","T","U","V","W","X","Y","Z">>

LowerLetters ==
  <<"a","b","c","d","e","f","g","h","i","j","k","l","m",
    "n","o","p","q","r","s","t","u","v","w","x","y","z">>

Digits == {"0","1","2","3","4","5","6","7","8","9"}

\* the lower-case letter of each upper-case letter
LowerOf ==
  [c \in {UpperLetters[i] : i \in 1..26} |->
     LowerLetters[CHOOSE i \in 1..26 : UpperLetters[i] = c]]

LowerChar(c) == IF c \in DOMAIN LowerOf THEN LowerOf[c] ELSE c

\* mutant: a comparison of names that keeps the letter case
keepCase(s) == s

\* String.prototype.toLowerCase
toLowerCase(s) == [i \in 1..Len(s) |-> LowerChar(s[i])]

\* mutant: the pattern without its lookahead, /^ATS0[0-9]{3}$/
TestEmployeeIDNoLookahead(s) ==
  /\ Len(s) = 7
  /\ SubSeq(s, 1, 4) = <<"A","T","S","0">>
  /\ \A i \in 5..7 : s[i] \in {"0","1","2","3","4","5","6","7","8","9"}

\* /^ATS0(?!000)[0-9]{3}$/.test(s), matched left to right as the regex is
\* written: the literal prefix, the negative lookahead on the next three
\* characters, three digits, end of input.
IdPrefix == <<"A","T","S","0">>

TestEmployeeID(s) ==
  /\ Len(s) >= 4
  /\ SubSeq(s, 1, 4) = IdPrefix
  /\ ~(Len(s) >= 7 /\ SubSeq(s, 5, 7) = <<"0","0","0">>)
  /\ Len(s) >= 7
  /\ \A i \in 5..7 : s[i] \in Digits
  /\ Len(s) = 7

(***************************************************************************)
(* Dates.                                                                  *)
(***************************************************************************)
IsLeap(y) == (y % 4 = 0 /\ y % 100 # 0) \/ y % 400 = 0

DaysInMonth(y, m) ==
  IF m = 2 THEN (IF IsLeap(y) THEN 29 ELSE 28)
  ELSE IF m \in {4, 6, 9, 11} THEN 30 ELSE 31

\* $2::date : whether the written date is a calendar date
ValidDate(d) ==
  /\ Len(d) = 3
  /\ d[2] \in 1..12
  /\ d[3] \in 1..DaysInMonth(d[1], d[2])

\* the DATE value of a written date
ToDate(d) == [year |-> d[1], month |-> d[2], day |-> d[3]]

\* EXTRACT(YEAR FROM x), EXTRACT(MONTH FROM x)
ExtractYear(x) == x.year
ExtractMonth(x) == x.month

\* ORDER BY proposal_date DESC: a sorts no later than b
DateGeq(a, b) ==
  \/ a.year > b.year
  \/ a.year = b.year /\ a.month > b.month
  \/ a.year = b.year /\ a.month = b.month /\ a.day >= b.day

(***************************************************************************)
(* The sample rows of initializeDatabase.                                  *)
(***************************************************************************)
VeeraRaghava == <<"V","e","e","r","a"," ","R","a","g","h","a","v","a">>
PavanKumar == <<"P","a","v","a","n"," ","K","u","m","a","r">>
ATS0123 == <<"A","T","S","0","1","2","3">>
ATS0456 == <<"A","T","S","0","4","5","6">>

SampleValues ==
  << [employeeName |-> VeeraRaghava, employeeID |-> ATS0123,
      proposalDate |-> <<2025, 4, 24>>, bonusAmount |-> 5000,
      reason |-> "Bonus for good performance and exceeding quarterly targets by 15% while maintaining excellent code quality standards."],
     [employeeName |-> PavanKumar, employeeID |-> ATS0456,
      proposalDate |-> <<2025, 4, 20>>, bonusAmount |-> 7500,
      reason |-> "Exceptional leadership in the recent product launch, coordinating between multiple teams to deliver ahead of schedule with outstanding results."] >>

(***************************************************************************)
(* The store: table bonus_proposals, its constraints and its unique index. *)
(***************************************************************************)
\* mutant: the INSERT stores the name in lower case
NewRowLowerName(id, v) ==
  [id |-> id,
   employee_name |-> [i \in 1..Len(v.employeeName) |-> LowerChar(v.employeeName[i])],
   employee_id |-> v.employeeID,
   proposal_date |-> [year |-> v.proposalDate[1], month |-> v.proposalDate[2],
                      day |-> v.proposalDate[3]],
   bonus_amount |-> v.bonusAmount,
   reason |-> v.reason]

\* the row INSERT builds from the five values and the next serial id
NewRow(id, v) ==
  [id |-> id,
   employee_name |-> v.employeeName,
   employee_id |-> v.employeeID,
   proposal_date |-> ToDate(v.proposalDate),
   bonus_amount |-> v.bonusAmount,
   reason |-> v.reason]

\* the key of unique_employee_per_month
MonthKey(row) ==
  <<row.employee_id, ExtractYear(row.proposal_date), ExtractMonth(row.proposal_date)>>

\* mutant: the unique index never rejects a row
UniqueViolationNever(rows, row) == FALSE

\* unique_employee_per_month rejects the row
UniqueViolation(rows, row) == \E s \in rows : MonthKey(s) = MonthKey(row)

\* mutant: an INSERT that replaces the stored row of the same employee and
\* month instead of being refused
DbInsertReplacing(rows, nid, unique, v) ==
  LET row == [id |-> nid, employee_name |-> v.employeeName,
              employee_id |-> v.employeeID,
              proposal_date |-> [year |-> v.proposalDate[1],
                                 month |-> v.proposalDate[2],
                                 day |-> v.proposalDate[3]],
              bonus_amount |-> v.bonusAmount, reason |-> v.reason]
      old == {s \in rows :
                /\ s.employee_id = row.employee_id
                /\ s.proposal_date.year = row.proposal_date.year
                /\ s.proposal_date.month = row.proposal_date.month}
  IN [code |-> "00000", rows |-> (rows \ old) \cup {row}, nextId |-> nid + 1,
      returned |-> <<row>>]

\* mutant: an index that reports the violation after the row is stored
DbInsertKeepingRefused(rows, nid, unique, v) ==
  IF ~ValidDate(v.proposalDate)
  THEN [code |-> "22008", rows |-> rows, nextId |-> nid, returned |-> <<>>]
  ELSE LET row == NewRow(nid, v) IN
    IF Len(v.employeeName) > NameColumnLen
    THEN [code |-> "22001", rows |-> rows, nextId |-> nid + 1, returned |-> <<>>]
    ELSE IF ~TestEmployeeID(v.employeeID) \/ ~(v.bonusAmount >= MinBonus)
    THEN [code |-> "23514", rows |-> rows, nextId |-> nid + 1, returned |-> <<>>]
    ELSE IF unique /\ UniqueViolation(rows, row)
    THEN [code |-> "23505", rows |-> rows \cup {row}, nextId |-> nid + 1,
          returned |-> <<>>]
    ELSE [code |-> "00000", rows |-> rows \cup {row}, nextId |-> nid + 1,
          returned |-> <<row>>]

\* INSERT INTO bonus_proposals ... VALUES v RETURNING *, on the rows `rows`
\* with the serial at `nid`: the SQLSTATE ("00000" on success), the rows and
\* the serial afterwards, and the returned row.  Values that do not convert
\* to the column types are refused before the serial is drawn; a row the
\* constraints refuse has drawn it.
DbInsert(rows, nid, unique, v) ==
  IF ~ValidDate(v.proposalDate)
  THEN [code |-> "22008", rows |-> rows, nextId |-> nid, returned |-> <<>>]
  ELSE LET row == NewRow(nid, v) IN
    IF Len(v.employeeName) > NameColumnLen
    THEN [code |-> "22001", rows |-> rows, nextId |-> nid + 1, returned |-> <<>>]
    ELSE IF ~TestEmployeeID(v.employeeID) \/ ~(v.bonusAmount >= MinBonus)
    THEN [code |-> "23514", rows |-> rows, nextId |-> nid + 1, returned |-> <<>>]
    ELSE IF unique /\ UniqueViolation(rows, row)
    THEN [code |-> "23505", rows |-> rows, nextId |-> nid + 1, returned |-> <<>>]
    ELSE [code |-> "00000", rows |-> rows \cup {row}, nextId |-> nid + 1,
          returned |-> <<row>>]

\* mutant: a SELECT without its ORDER BY: the rows, each once, in any order
RECURSIVE InAnyOrder(_)
InAnyOrder(rows) ==
  IF rows = {}
  THEN {<<>>}
  ELSE UNION {{<<m>> \o q : q \in InAnyOrder(rows \ {m})} : m \in rows}

\* SELECT ... ORDER BY proposal_date DESC over the rows `rows`: every
\* listing of them, each once, in non-increasing date order (rows of equal
\* date come in either order).  A listing starts with a row of the latest
\* date and goes on with a listing of the others.
RECURSIVE OrderByDateDesc(_)
OrderByDateDesc(rows) ==
  IF rows = {}
  THEN {<<>>}
  ELSE LET latest == {s \in rows :
                        \A t \in rows : DateGeq(s.proposal_date, t.proposal_date)}
       IN UNION {{<<m>> \o q : q \in OrderByDateDesc(rows \ {m})} : m \in latest}

\* WHERE employee_id = $1
RowsOfEmployee(rows, id) == {s \in rows : s.employee_id = id}

\* mutant: the month pre-check compares the whole date
RowsOfSameDay(rows, id, d) ==
  {s \in rows :
     /\ s.employee_id = id
     /\ s.proposal_date = [year |-> d[1], month |-> d[2], day |-> d[3]]}

\* mutant: the month pre-check compares the month and not the year
RowsOfMonthAnyYear(rows, id, d) ==
  {s \in rows : s.employee_id = id /\ s.proposal_date.month = d[2]}

\* WHERE employee_id = $1 AND EXTRACT(MONTH ...) = ... AND EXTRACT(YEAR ...) = ...
RowsOfMonth(rows, id, d) ==
  {s \in rows :
     /\ s.employee_id = id
     /\ ExtractMonth(s.proposal_date) = ExtractMonth(ToDate(d))
     /\ ExtractYear(s.proposal_date) = ExtractYear(ToDate(d))}

(***************************************************************************)
(* Requests.                                                               *)
(***************************************************************************)
\* requests the server handles at the same time
Reqs == {1, 2}

NoValues ==
  [employeeName |-> <<>>, employeeID |-> <<>>, proposalDate |-> <<>>,
   bonusAmount |-> 0, reason |-> ""]

\* res.status(status).json(...): error is the message, correctName and
\* existingProposal the extra fields of the two conflict answers, rows the
\* array (or, for 201, the one object) sent back.
Response(status, error, correctName, existingProposal, rows) ==
  [status |-> status, error |-> error, correctName |-> correctName,
   existingProposal |-> existingProposal, rows |-> rows]

NoResponse == Response(0, "", <<>>, <<>>, <<>>)

Idle ==
  [kind |-> "none", pc |-> "idle", values |-> NoValues, err |-> "",
   resp |-> NoResponse]

MsgAllFields == "All fields are required"
MsgMinBonus == "Bonus amount must be at least 100"
MsgIdFormat == "Employee ID must be in format ATS0XXX where XXX is 001-999"
MsgSameMonth == "Employee has already been submitted for this month"
MsgNameMismatch == "Employee ID is associated with"
MsgSearchMismatch == "Employee ID is associated with. Please use the correct employee name."
MsgDuplicate == "Duplicate entry detected"
MsgCreate500 == "Server error while creating bonus"
MsgList500 == "Server error while fetching bonuses"
MsgSearch500 == "Server error while searching bonuses"
MsgIdRequired == "Employee ID is required"
MsgNotFound == "No matching bonus proposals found"

(***************************************************************************)
(* Inputs.                                                                 *)
(***************************************************************************)
veeraLower == <<"v","e","e","r","a"," ","r","a","g","h","a","v","a">>
ATS0789 == <<"A","T","S","0","7","8","9">>
LongName == [i \in 1..(NameColumnLen + 1) |-> "x"]

\* bodies of POST /api/bonuses that pass the checks made before the store
\* is asked
PassingValues ==
  [employeeName : {VeeraRaghava, veeraLower, PavanKumar},
   employeeID : {ATS0123, ATS0789},
   proposalDate : {<<2025, 4, 28>>, <<2026, 4, 10>>},
   bonusAmount : {5000},
   reason : {"Outstanding delivery"}]

BaseValues ==
  [employeeName |-> VeeraRaghava, employeeID |-> ATS0123,
   proposalDate |-> <<2025, 5, 2>>, bonusAmount |-> 5000,
   reason |-> "Outstanding delivery"]

BadEmployeeIDs ==
  {<<"A","T","S","0","0","0","0">>,
   <<"A","T","S","0","1","2">>,
   <<"X","T","S","0","1","2","3">>,
   <<"A","T","S","0","1","2","3","4">>,
   <<"a","t","s","0","1","2","3">>,
   <<"A","T","S","0","1","2","x">>}

\* bodies that differ from BaseValues in one field
VariedValues ==
  {[BaseValues EXCEPT !.employeeName = n] : n \in {<<>>, LongName}}
  \cup {[BaseValues EXCEPT !.employeeID = e] :
          e \in BadEmployeeIDs \cup {<<>>, <<"A","T","S","0","1","0","0">>}}
  \cup {[BaseValues EXCEPT !.proposalDate = d] : d \in {<<>>, <<2025, 4, 31>>}}
  \cup {[BaseValues EXCEPT !.bonusAmount = a] : a \in {-5, 0, 99, 100}}
  \cup {[BaseValues EXCEPT !.reason = ""]}

\* a body with the employee, name, date and amount of the first sample row
SampleBody ==
  [employeeName |-> VeeraRaghava, employeeID |-> ATS0123,
   proposalDate |-> <<2025, 4, 24>>, bonusAmount |-> 5000,
   reason |-> "Outstanding delivery"]

\* bodies that fail more than one of the checks made before the store is
\* asked
ManyFaultValues ==
  {[BaseValues EXCEPT !.employeeName = <<>>, !.bonusAmount = 99,
                      !.employeeID = <<"A","T","S","0","0","0","0">>],
   [BaseValues EXCEPT !.bonusAmount = 99,
                      !.employeeID = <<"X","T","S","0","1","2","3">>]}

\* the bodies of POST /api/bonuses
CreateValues == PassingValues \cup VariedValues \cup {SampleBody} \cup ManyFaultValues

\* the queries of GET /api/bonuses/search
SearchValues ==
  {[NoValues EXCEPT !.employeeName = n, !.employeeID = e] :
     n \in {<<>>, VeeraRaghava, veeraLower, PavanKumar},
     e \in {<<>>, ATS0123, ATS0789}}

(***************************************************************************)
(* State.                                                                  *)
(***************************************************************************)
VARIABLES
  proc,          \* "init": initializeDatabase runs; "listening"; "exited"
  exitCode,      \* the code of process.exit, -1 while the process runs
  initPc,        \* the next statement of initializeDatabase
  retries,       \* its counter of failed attempts
  tableExists,   \* bonus_proposals exists in the database
  indexExists,   \* unique_employee_per_month exists
  store,         \* the rows of bonus_proposals
  nextId,        \* the next value of the id column's serial
  req,           \* per request: its handler's position, inputs, err and answer
  snap,          \* per request: the rows stored when it was received
  overlapped     \* per request: another request was in flight during it

vars ==
  <<proc, exitCode, initPc, retries, tableExists, indexExists, store, nextId,
    req, snap, overlapped>>

dbVars == <<tableExists, indexExists, store, nextId>>
initVars == <<proc, exitCode, initPc, retries>>
reqVars == <<req, snap, overlapped>>

\* rows a run of this service leaves in the database: the sample rows and
\* one created proposal
PriorRows ==
  {NewRow(1, SampleValues[1]), NewRow(2, SampleValues[2]),
   NewRow(3, [employeeName |-> VeeraRaghava, employeeID |-> ATS0123,
              proposalDate |-> <<2025, 5, 2>>, bonusAmount |-> 100,
              reason |-> "Outstanding delivery"])}

\* what the database holds when the process starts: nothing, or the table
\* an earlier run of this service left
PriorDatabases ==
  {[tableExists |-> FALSE, indexExists |-> FALSE, store |-> {}, nextId |-> 1],
   [tableExists |-> TRUE, indexExists |-> TRUE, store |-> PriorRows, nextId |-> 4]}

Init ==
  /\ proc = "init"
  /\ exitCode = -1
  /\ initPc = "connect"
  /\ retries = 0
  /\ \E db \in PriorDatabases :
       /\ tableExists = db.tableExists
       /\ indexExists = db.indexExists
       /\ store = db.store
       /\ nextId = db.nextId
  /\ req = [r \in Reqs |-> Idle]
  /\ snap = [r \in Reqs |-> {}]
  /\ overlapped = [r \in Reqs |-> FALSE]

(***************************************************************************)
(* initializeDatabase and the start of the server.                         *)
(***************************************************************************)
\* mutant: a catch that compares with <= and so waits after the fifth
\* failure as well
InitCatchOneMore ==
  /\ retries' = retries + 1
  /\ initPc' = IF retries + 1 <= maxRetries THEN "wait" ELSE "thrown"
  /\ UNCHANGED <<proc, exitCode>>

\* catch (err) of the retry loop: count the attempt, then wait or throw
InitCatch ==
  /\ retries' = retries + 1
  /\ initPc' = IF retries + 1 < maxRetries THEN "wait" ELSE "thrown"
  /\ UNCHANGED <<proc, exitCode>>

\* await pool.query('SELECT 1')
InitConnect ==
  /\ proc = "init" /\ initPc = "connect"
  /\ \/ initPc' = "drop" /\ UNCHANGED <<proc, exitCode, retries>>
     \/ InitCatch
  /\ UNCHANGED <<dbVars, reqVars>>

\* mutant: an initialization that keeps the table it finds
InitDropNothing ==
  /\ proc = "init" /\ initPc = "drop"
  /\ \/ /\ initPc' = "create"
        /\ UNCHANGED <<proc, exitCode, retries>>
     \/ InitCatch
  /\ UNCHANGED <<tableExists, indexExists, store, nextId, req, snap, overlapped>>

\* DROP TABLE IF EXISTS bonus_proposals CASCADE
InitDrop ==
  /\ proc = "init" /\ initPc = "drop"
  /\ \/ /\ initPc' = "create"
        /\ tableExists' = FALSE
        /\ indexExists' = FALSE
        /\ store' = {}
        /\ nextId' = 1
        /\ UNCHANGED <<proc, exitCode, retries>>
     \/ InitCatch /\ UNCHANGED dbVars
  /\ UNCHANGED reqVars

\* CREATE TABLE IF NOT EXISTS bonus_proposals (...)
InitCreateTable ==
  /\ proc = "init" /\ initPc = "create"
  /\ \/ /\ initPc' = "index"
        /\ tableExists' = TRUE
        /\ store' = IF tableExists THEN store ELSE {}
        /\ nextId' = IF tableExists THEN nextId ELSE 1
        /\ UNCHANGED <<proc, exitCode, retries, indexExists>>
     \/ InitCatch /\ UNCHANGED dbVars
  /\ UNCHANGED reqVars

\* CREATE UNIQUE INDEX IF NOT EXISTS unique_employee_per_month
InitCreateIndex ==
  /\ proc = "init" /\ initPc = "index"
  /\ \/ /\ tableExists
        /\ indexExists \/ \A s, t \in store : MonthKey(s) = MonthKey(t) => s = t
        /\ initPc' = "count"
        /\ indexExists' = TRUE
        /\ UNCHANGED <<proc, exitCode, retries, tableExists, store, nextId>>
     \/ InitCatch /\ UNCHANGED dbVars
  /\ UNCHANGED reqVars

\* mutant: an initialization that inserts no sample data
InitCountNoSeed ==
  /\ proc = "init" /\ initPc = "count"
  /\ \/ /\ tableExists
        /\ initPc' = "return"
        /\ UNCHANGED <<proc, exitCode, retries>>
     \/ InitCatch
  /\ UNCHANGED <<tableExists, indexExists, store, nextId, req, snap, overlapped>>

\* SELECT COUNT(*) and the test of the count
InitCount ==
  /\ proc = "init" /\ initPc = "count"
  /\ \/ /\ tableExists
        /\ initPc' = IF Cardinality(store) = 0 THEN "seed" ELSE "return"
        /\ UNCHANGED <<proc, exitCode, retries>>
     \/ InitCatch
  /\ UNCHANGED <<dbVars, reqVars>>

\* the two-row INSERT of the sample data: one statement, all or nothing
InitSeed ==
  /\ proc = "init" /\ initPc = "seed"
  /\ \/ /\ tableExists
        /\ LET a == DbInsert(store, nextId, indexExists, SampleValues[1])
               b == DbInsert(a.rows, a.nextId, indexExists, SampleValues[2])
           IN /\ a.code = "00000" /\ b.code = "00000"
              /\ store' = b.rows
              /\ nextId' = b.nextId
        /\ initPc' = "return"
        /\ UNCHANGED <<proc, exitCode, retries, tableExists, indexExists>>
     \/ InitCatch /\ UNCHANGED dbVars
  /\ UNCHANGED reqVars

\* setTimeout(resolve, 5000) fires: the loop tries again
InitWait ==
  /\ proc = "init" /\ initPc = "wait"
  /\ initPc' = "connect"
  /\ UNCHANGED <<proc, exitCode, retries, dbVars, reqVars>>

\* mutant: app.listen called without waiting for initializeDatabase
StartListeningAtOnce ==
  /\ proc = "init"
  /\ proc' = "listening"
  /\ initPc' = "returned"
  /\ retries' = 0
  /\ UNCHANGED <<exitCode, tableExists, indexExists, store, nextId, req, snap,
                 overlapped>>

\* initializeDatabase returns (its counter goes with its frame) and
\* .then(() => app.listen(port, ...)) runs
StartListening ==
  /\ proc = "init" /\ initPc = "return"
  /\ proc' = "listening"
  /\ initPc' = "returned"
  /\ retries' = 0
  /\ UNCHANGED <<exitCode, dbVars, reqVars>>

\* .catch(err => process.exit(1))
FatalExit ==
  /\ proc = "init" /\ initPc = "thrown"
  /\ proc' = "exited"
  /\ exitCode' = 1
  /\ UNCHANGED <<initPc, retries, dbVars, reqVars>>

(***************************************************************************)
(* Request handlers.                                                       *)
(***************************************************************************)
InFlight(r) == req[r].pc \notin {"idle", "done"}

\* the SQLSTATE a statement of a handler may fail with, whatever it asks:
\* the connection is lost, or the table is not there
QueryFailures == IF tableExists THEN {"08006"} ELSE {"42P01"}

\* the server listens and r is its first free slot
Free(r) ==
  /\ proc = "listening"
  /\ ~InFlight(r)
  /\ \A q \in Reqs : q < r => InFlight(q)

\* the server takes a request on its first free slot: the handler runs up
\* to its first await (pc), or to the answer (resp) when it sends one in the
\* same step.  The records of requests answered earlier are dropped.
Receive(r, kind, v, pc, err, resp) ==
  /\ req' = [q \in Reqs |->
       IF q = r
       THEN [kind |-> kind, pc |-> pc, values |-> v, err |-> err, resp |-> resp]
       ELSE IF InFlight(q) THEN req[q] ELSE Idle]
  /\ snap' = [q \in Reqs |->
       IF q = r THEN store ELSE IF InFlight(q) THEN snap[q] ELSE {}]
  /\ overlapped' = [q \in Reqs |->
       IF q = r THEN \E o \in Reqs \ {r} : InFlight(o)
       ELSE InFlight(q) /\ (overlapped[q] \/ pc # "done")]
  /\ UNCHANGED initVars

\* the handler goes on to its next await
Continue(r, pc) ==
  /\ req' = [req EXCEPT ![r].pc = pc]
  /\ UNCHANGED <<snap, overlapped>>

\* the handler sends its answer
Answer(r, err, resp) ==
  /\ req' = [req EXCEPT ![r].pc = "done", ![r].err = err, ![r].resp = resp]
  /\ UNCHANGED <<snap, overlapped>>

\* no handler is between two awaits
Quiet == \A q \in Reqs : ~InFlight(q)

\* The three read-only handlers make one query each, so each is one step.
\* The model takes them while no create is between its queries: the rows a
\* query sees change only at an INSERT, and every set of rows the table
\* reaches is also reached with no create in flight.

\* GET /api/health: SELECT 1 and the answer
Health(r) ==
  /\ Free(r) /\ Quiet
  /\ \/ Receive(r, "health", NoValues, "done", "", Response(200, "", <<>>, <<>>, <<>>))
     \/ \E e \in {"08006"} :
          Receive(r, "health", NoValues, "done", e,
                  Response(500, "unhealthy", <<>>, <<>>, <<>>))
  /\ UNCHANGED dbVars

\* GET /api/bonuses: the query and the answer
List(r) ==
  /\ Free(r) /\ Quiet
  /\ \/ /\ tableExists
        /\ \E rows \in OrderByDateDesc(store) :
             Receive(r, "list", NoValues, "done", "", Response(200, "", <<>>, <<>>, rows))
     \/ \E e \in QueryFailures :
          Receive(r, "list", NoValues, "done", e,
                  Response(500, MsgList500, <<>>, <<>>, <<>>))
  /\ UNCHANGED dbVars

\* mutant: a search that leaves the mismatching rows out of its answer
SearchAnswerFiltering(v, rows) ==
  LET Matches(row) ==
        [i \in 1..Len(row.employee_name) |-> LowerChar(row.employee_name[i])]
          = [i \in 1..Len(v.employeeName) |-> LowerChar(v.employeeName[i])]
  IN IF Len(rows) = 0
     THEN [status |-> 404, error |-> "No matching bonus proposals found",
           correctName |-> <<>>, existingProposal |-> <<>>, rows |-> <<>>]
     ELSE [status |-> 200, error |-> "", correctName |-> <<>>,
           existingProposal |-> <<>>,
           rows |-> IF v.employeeName # <<>> THEN SelectSeq(rows, Matches) ELSE rows]

\* the answer of search to the rows its query returned
SearchAnswer(v, rows) ==
  IF Len(rows) = 0
  THEN Response(404, MsgNotFound, <<>>, <<>>, <<>>)
  ELSE IF /\ v.employeeName # <<>>
          /\ \E i \in 1..Len(rows) :
               toLowerCase(rows[i].employee_name) # toLowerCase(v.employeeName)
  THEN Response(400, MsgSearchMismatch, rows[1].employee_name, <<>>, <<>>)
  ELSE Response(200, "", <<>>, <<>>, rows)

\* GET /api/bonuses/search: the test of employeeID, the query and the answer
Search(r) ==
  /\ Free(r) /\ Quiet
  /\ \E v \in SearchValues :
       IF v.employeeID = <<>>
       THEN Receive(r, "search", v, "done", "",
                    Response(400, MsgIdRequired, <<>>, <<>>, <<>>))
       ELSE \/ /\ tableExists
               /\ \E rows \in OrderByDateDesc(RowsOfEmployee(store, v.employeeID)) :
                    Receive(r, "search", v, "done", "", SearchAnswer(v, rows))
            \/ \E e \in QueryFailures :
                 Receive(r, "search", v, "done", e,
                         Response(500, MsgSearch500, <<>>, <<>>, <<>>))
  /\ UNCHANGED dbVars

\* mutant: the amount check refuses 100 as well (bonusAmount <= 100)
CreateValidationAbove100(v) ==
  IF \/ v.employeeName = <<>> \/ v.employeeID = <<>> \/ v.proposalDate = <<>>
     \/ v.bonusAmount = 0 \/ v.reason = ""
  THEN "All fields are required"
  ELSE IF v.bonusAmount <= 100
  THEN "Bonus amount must be at least 100"
  ELSE IF ~TestEmployeeID(v.employeeID)
  THEN "Employee ID must be in format ATS0XXX where XXX is 001-999"
  ELSE ""

\* mutant: the format of employeeID checked before the amount
CreateValidationIdFirst(v) ==
  IF \/ v.employeeName = <<>> \/ v.employeeID = <<>> \/ v.proposalDate = <<>>
     \/ v.bonusAmount = 0 \/ v.reason = ""
  THEN "All fields are required"
  ELSE IF ~TestEmployeeID(v.employeeID)
  THEN "Employee ID must be in format ATS0XXX where XXX is 001-999"
  ELSE IF v.bonusAmount < 100
  THEN "Bonus amount must be at least 100"
  ELSE ""

\* POST /api/bonuses: the checks made before the store is asked; the
\* message of the first that fails, "" when all pass
CreateValidation(v) ==
  IF \/ v.employeeName = <<>> \/ v.employeeID = <<>> \/ v.proposalDate = <<>>
     \/ v.bonusAmount = 0 \/ v.reason = ""
  THEN MsgAllFields
  ELSE IF v.bonusAmount < MinBonus
  THEN MsgMinBonus
  ELSE IF ~TestEmployeeID(v.employeeID)
  THEN MsgIdFormat
  ELSE ""

CreateReceive(r) ==
  /\ Free(r)
  /\ nextId + Cardinality({q \in Reqs : req[q].kind = "create" /\ InFlight(q)}) <= MaxId
  /\ \E v \in CreateValues :
       LET msg == CreateValidation(v) IN
       IF msg # ""
       THEN Receive(r, "create", v, "done", "", Response(400, msg, <<>>, <<>>, <<>>))
       ELSE Receive(r, "create", v, "month", "", NoResponse)
  /\ UNCHANGED dbVars

\* mutant: catch (err) of create without the test of err.code
CreateCatchAlways500(r, code) ==
  /\ req' = [req EXCEPT ![r].pc = "done", ![r].err = code,
               ![r].resp = [status |-> 500, error |-> "Server error while creating bonus",
                            correctName |-> <<>>, existingProposal |-> <<>>,
                            rows |-> <<>>]]
  /\ UNCHANGED <<snap, overlapped>>

\* mutant: a catch that answers the uniqueness violation and lets every
\* other error escape the handler, the request left without an answer
CreateCatchOnlyDuplicate(r, code) ==
  /\ req' = IF code = "23505"
            THEN [req EXCEPT ![r].pc = "done", ![r].err = code,
                    ![r].resp = [status |-> 400, error |-> "Duplicate entry detected",
                                 correctName |-> <<>>, existingProposal |-> <<>>,
                                 rows |-> <<>>]]
            ELSE [req EXCEPT ![r].err = code]
  /\ UNCHANGED <<snap, overlapped>>

\* catch (err) of create
CreateCatch(r, code) ==
  IF code = "23505"
  THEN Answer(r, code, Response(400, MsgDuplicate, <<>>, <<>>, <<>>))
  ELSE Answer(r, code, Response(500, MsgCreate500, <<>>, <<>>, <<>>))

\* the query for a proposal of the same employee in the same month
CreateMonthCheck(r) ==
  LET v == req[r].values IN
  /\ proc = "listening" /\ req[r].pc = "month"
  /\ \/ /\ tableExists /\ ValidDate(v.proposalDate)
        /\ LET rows == RowsOfMonth(store, v.employeeID, v.proposalDate) IN
           IF rows # {}
           THEN \E first \in rows :
                  Answer(r, "", Response(400, MsgSameMonth, <<>>,
                    <<[id |-> first.id, employee_name |-> first.employee_name]>>, <<>>))
           ELSE Continue(r, "name")
     \/ /\ tableExists /\ ~ValidDate(v.proposalDate)
        /\ CreateCatch(r, "22008")
     \/ \E e \in QueryFailures : CreateCatch(r, e)
  /\ UNCHANGED <<initVars, dbVars>>

\* mutant: a name check that compares only when the employee has a single
\* stored proposal
CreateNameCheckSingleRow(r) ==
  LET v == req[r].values IN
  /\ proc = "listening" /\ req[r].pc = "name"
  /\ \/ /\ tableExists
        /\ LET rows == {s \in store : s.employee_id = v.employeeID} IN
           IF Cardinality(rows) # 1
           THEN req' = [req EXCEPT ![r].pc = "insert"]
           ELSE \E first \in rows :
                  IF [i \in 1..Len(first.employee_name) |-> LowerChar(first.employee_name[i])]
                       # [i \in 1..Len(v.employeeName) |-> LowerChar(v.employeeName[i])]
                  THEN req' = [req EXCEPT ![r].pc = "done", ![r].err = "",
                                 ![r].resp = [status |-> 400,
                                              error |-> "Employee ID is associated with",
                                              correctName |-> first.employee_name,
                                              existingProposal |-> <<>>,
                                              rows |-> <<>>]]
                  ELSE req' = [req EXCEPT ![r].pc = "insert"]
     \/ \E e \in QueryFailures :
          req' = [req EXCEPT ![r].pc = "done", ![r].err = e,
                    ![r].resp = [status |-> 500,
                                 error |-> "Server error while creating bonus",
                                 correctName |-> <<>>, existingProposal |-> <<>>,
                                 rows |-> <<>>]]
  /\ UNCHANGED <<proc, exitCode, initPc, retries, tableExists, indexExists,
                 store, nextId, snap, overlapped>>

\* the query for the stored name of the employee (LIMIT 1, any row)
CreateNameCheck(r) ==
  LET v == req[r].values IN
  /\ proc = "listening" /\ req[r].pc = "name"
  /\ \/ /\ tableExists
        /\ LET rows == RowsOfEmployee(store, v.employeeID) IN
           IF rows = {}
           THEN Continue(r, "insert")
           ELSE \E first \in rows :
                  IF toLowerCase(first.employee_name) # toLowerCase(v.employeeName)
                  THEN Answer(r, "", Response(400, MsgNameMismatch,
                         first.employee_name, <<>>, <<>>))
                  ELSE Continue(r, "insert")
     \/ \E e \in QueryFailures : CreateCatch(r, e)
  /\ UNCHANGED <<initVars, dbVars>>

\* the INSERT and the 201 answer
CreateInsert(r) ==
  /\ proc = "listening" /\ req[r].pc = "insert"
  /\ \/ /\ tableExists
        /\ LET res == DbInsert(store, nextId, indexExists, req[r].values) IN
           /\ store' = res.rows
           /\ nextId' = res.nextId
           /\ IF res.code = "00000"
              THEN Answer(r, "", Response(201, "", <<>>, <<>>, res.returned))
              ELSE CreateCatch(r, res.code)
        /\ UNCHANGED <<tableExists, indexExists>>
     \/ /\ \E e \in QueryFailures : CreateCatch(r, e)
        /\ UNCHANGED dbVars
  /\ UNCHANGED initVars

Next ==
  \/ InitConnect
  \/ InitDrop
  \/ InitCreateTable
  \/ InitCreateIndex
  \/ InitCount
  \/ InitSeed
  \/ InitWait
  \/ StartListening
  \/ FatalExit
  \/ \E r \in Reqs : Health(r)
  \/ \E r \in Reqs : List(r)
  \/ \E r \in Reqs : Search(r)
  \/ \E r \in Reqs : CreateReceive(r)
  \/ \E r \in Reqs : CreateMonthCheck(r)
  \/ \E r \in Reqs : CreateNameCheck(r)
  \/ \E r \in Reqs : CreateInsert(r)

Spec == Init /\ [][Next]_vars

\* a step of initializeDatabase or of the promise chain that follows it
InitializeStep ==
  \/ InitConnect
  \/ InitDrop
  \/ InitCreateTable
  \/ InitCreateIndex
  \/ InitCount
  \/ InitSeed
  \/ InitWait
  \/ StartListening
  \/ FatalExit

\* The event loop runs every continuation that is ready: a query of
\* initializeDatabase settles (resolves or rejects), the timer of the wait
\* fires, and the .then/.catch callbacks run.
LiveSpec == Init /\ [][Next]_vars /\ WF_vars(InitializeStep)

(***************************************************************************)
(* Properties.                                                             *)
(***************************************************************************)
\* r holds an answered create
DoneCreate(r) == req[r].kind = "create" /\ req[r].pc = "done"

\* the store failed a statement of r for a reason of its own (connection
\* lost, table missing), not because of what r asked
StoreFault(r) == req[r].err \in {"08006", "42P01"}

\* the body passes the three checks made before the store is asked, and
\* its values fit the columns
WellFormed(v) ==
  /\ v.employeeName # <<>> /\ v.employeeID # <<>> /\ v.proposalDate # <<>>
  /\ v.bonusAmount # 0 /\ v.reason # ""
  /\ v.bonusAmount >= 100
  /\ Len(v.employeeID) = 7
  /\ SubSeq(v.employeeID, 1, 4) = <<"A","T","S","0">>
  /\ \A i \in 5..7 : v.employeeID[i] \in Digits
  /\ SubSeq(v.employeeID, 5, 7) # <<"0","0","0">>
  /\ Len(v.proposalDate) = 3
  /\ v.proposalDate[2] \in 1..12
  /\ v.proposalDate[3] \in 1..DaysInMonth(v.proposalDate[1], v.proposalDate[2])
  /\ Len(v.employeeName) <= 100

\* row s is of the employee, year and month the body v names
SameMonth(s, v) ==
  /\ s.employee_id = v.employeeID
  /\ s.proposal_date.year = v.proposalDate[1]
  /\ s.proposal_date.month = v.proposalDate[2]

\* two names are equal up to letter case: at each place the same character,
\* or the upper- and lower-case form of one letter
SameName(a, b) ==
  /\ Len(a) = Len(b)
  /\ \A i \in 1..Len(a) :
       \/ a[i] = b[i]
       \/ \E k \in 1..26 : {a[i], b[i]} = {UpperLetters[k], LowerLetters[k]}

\* C1: in every reachable state the table holds at most one proposal per
\* (employee_id, year of proposal_date, month of proposal_date).
C1_OnePerEmployeeMonth ==
  \A s, t \in store :
    (/\ s.employee_id = t.employee_id
     /\ s.proposal_date.year = t.proposal_date.year
     /\ s.proposal_date.month = t.proposal_date.month) => s = t

\* two creates for one employee and month ran at the same time, both reached
\* the INSERT, and the index let one in and refused the other
C1_Witness ==
  \E a, b \in Reqs :
    /\ a # b /\ DoneCreate(a) /\ DoneCreate(b)
    /\ req[a].resp.status = 201
    /\ req[b].err = "23505"
    /\ SameMonth(req[a].resp.rows[1], req[b].values)

\* a and b are answered creates that ran at the same time for the same
\* employee and the same month, each well formed, neither failed by the
\* store, with no proposal of that employee and month stored when either was
\* received and a name that agrees with the names stored for the employee
RacingPair(a, b) ==
  /\ a # b /\ DoneCreate(a) /\ DoneCreate(b)
  /\ overlapped[a] /\ overlapped[b]
  /\ WellFormed(req[a].values) /\ WellFormed(req[b].values)
  /\ ~StoreFault(a) /\ ~StoreFault(b)
  /\ req[a].values.employeeID = req[b].values.employeeID
  /\ req[a].values.proposalDate[1] = req[b].values.proposalDate[1]
  /\ req[a].values.proposalDate[2] = req[b].values.proposalDate[2]
  /\ \A q \in {a, b} : \A s \in snap[q] :
       /\ ~SameMonth(s, req[q].values)
       /\ s.employee_id = req[q].values.employeeID
            => SameName(s.employee_name, req[q].values.employeeName)

\* C2 as claimed: of two concurrent creates for the same employee and month
\* exactly one is answered 201 and the other 400 'Duplicate entry detected'.
C2_Original ==
  \A a, b \in Reqs :
    RacingPair(a, b) /\ SameName(req[a].values.employeeName, req[b].values.employeeName)
      => \/ /\ req[a].resp.status = 201
            /\ req[b].resp.status = 400 /\ req[b].resp.error = MsgDuplicate
         \/ /\ req[b].resp.status = 201
            /\ req[a].resp.status = 400 /\ req[a].resp.error = MsgDuplicate

\* C2, amended: of two concurrent creates for the same employee and month
\* exactly one is answered 201 and the other is answered 400, never 500:
\* 'Duplicate entry detected' when it lost at the INSERT, 'already submitted
\* for this month' when its month check ran after the winner's INSERT, or
\* the name mismatch when the two bodies carry different names.
C2_ExactlyOneCreated ==
  \A a, b \in Reqs :
    RacingPair(a, b)
      => \E w, l \in {a, b} :
           /\ w # l
           /\ req[w].resp.status = 201
           /\ req[l].resp.status = 400
           /\ \/ req[l].resp.error \in {MsgDuplicate, MsgSameMonth}
              \/ /\ req[l].resp.error = MsgNameMismatch
                 /\ ~SameName(req[w].values.employeeName, req[l].values.employeeName)

\* a racing pair whose loser was refused by the unique index
C2_Witness ==
  \E a, b \in Reqs :
    /\ RacingPair(a, b)
    /\ req[a].resp.status = 201
    /\ req[b].resp.status = 400 /\ req[b].resp.error = MsgDuplicate

\* C3 as claimed: in every reachable state all proposals of one employee_id
\* carry the same employee_name up to letter case.
C3_OneNamePerEmployee ==
  \A s, t \in store :
    s.employee_id = t.employee_id => SameName(s.employee_name, t.employee_name)

\* the step keeps every stored proposal as it is, and a proposal it adds is
\* the one a create answers 201 with in this step
StoreOnlyGrowsByCreate ==
  /\ \A s \in store : s \in store'
  /\ \A s \in store' \ store :
       \E r \in Reqs :
         /\ req[r].kind = "create" /\ req[r].pc = "insert"
         /\ req'[r].pc = "done" /\ req'[r].resp.status = 201
         /\ req'[r].resp.rows = <<s>>

\* C4 as claimed: no step of the system, startup initialization included,
\* removes or changes a stored proposal, and proposals enter the store only
\* through create.
C4_Original == [][StoreOnlyGrowsByCreate]_vars

\* C4, amended: once initializeDatabase has returned and the server listens,
\* no step removes or changes a stored proposal and proposals enter the
\* store only through a create answered 201.  (initializeDatabase itself
\* drops the table with every proposal in it and inserts the sample rows.)
C4_StoreKeptWhileListening ==
  [][proc = "listening" => StoreOnlyGrowsByCreate]_vars

\* the server listens and a create has added a proposal to the sample rows
C4_Witness ==
  /\ proc = "listening"
  /\ \E r \in Reqs :
       /\ DoneCreate(r) /\ req[r].resp.status = 201
       /\ req[r].resp.rows[1] \in store
  /\ Cardinality(store) > 2

\* the body of r is well formed and the store has not failed r
Served(r) == WellFormed(req[r].values) /\ ~StoreFault(r)

\* C5: when the store holds a proposal of employee E dated in year Y and
\* month M, a later create (well formed, the store answering) for E with any
\* date in Y and M is answered 400 'already submitted for this month', and
\* the answer carries the id and the stored name of the conflicting proposal.
C5_SameMonthRefused ==
  \A r \in Reqs :
    (/\ DoneCreate(r) /\ Served(r)
     /\ \E s \in snap[r] : SameMonth(s, req[r].values))
    => /\ req[r].resp.status = 400
       /\ req[r].resp.error = MsgSameMonth
       /\ \E s \in snap[r] :
            /\ SameMonth(s, req[r].values)
            /\ req[r].resp.existingProposal =
                 <<[id |-> s.id, employee_name |-> s.employee_name]>>

\* a create that overlapped no other request, for the employee and month of
\* a stored proposal but another day, was refused
C5_Witness ==
  \E r \in Reqs :
    /\ DoneCreate(r) /\ Served(r) /\ ~overlapped[r]
    /\ req[r].resp.error = MsgSameMonth
    /\ \E s \in snap[r] :
         /\ SameMonth(s, req[r].values)
         /\ s.proposal_date.day # req[r].values.proposalDate[3]

\* r is an answered create that overlapped no other request, well formed
\* and not failed by the store, received when the store held no proposal of
\* its employee in its month and only names equal to its name, up to letter
\* case, for its employee
Unobstructed(r) ==
  /\ DoneCreate(r) /\ Served(r) /\ ~overlapped[r]
  /\ \A s \in snap[r] :
       /\ ~SameMonth(s, req[r].values)
       /\ s.employee_id = req[r].values.employeeID
            => SameName(s.employee_name, req[r].values.employeeName)

\* C6: a create with five valid fields, a name equal up to letter case to
\* the stored name of its employee_id, and a date in a (year, month) in which
\* that employee has no stored proposal, is answered 201 and adds exactly one
\* proposal, also when the employee has proposals in other months.
C6_OtherMonthCreated ==
  \A r \in Reqs :
    Unobstructed(r)
    => /\ req[r].resp.status = 201
       /\ Len(req[r].resp.rows) = 1
       /\ req[r].resp.rows[1] \notin snap[r]
       /\ store = snap[r] \cup {req[r].resp.rows[1]}

\* a create was answered 201 for an employee who already had a proposal in
\* the same month of another year, under a name in another letter case
C6_Witness ==
  \E r \in Reqs :
    /\ Unobstructed(r) /\ req[r].resp.status = 201
    /\ \E s \in snap[r] :
         /\ s.employee_id = req[r].values.employeeID
         /\ s.proposal_date.month = req[r].values.proposalDate[2]
         /\ s.proposal_date.year # req[r].values.proposalDate[1]
         /\ s.employee_name # req[r].values.employeeName

\* C7: every create answered 201 returns a record whose five fields equal
\* the submitted input and whose id differs from the id of every record
\* already stored, and that record is the one added to the store.
C7_CreatedEqualsInput ==
  [][\A r \in Reqs :
       (req'[r] # req[r] /\ req'[r].resp.status = 201)
       => /\ Len(req'[r].resp.rows) = 1
          /\ LET row == req'[r].resp.rows[1]
                 v == req'[r].values
             IN /\ row.employee_name = v.employeeName
                /\ row.employee_id = v.employeeID
                /\ row.proposal_date =
                     [year |-> v.proposalDate[1], month |-> v.proposalDate[2],
                      day |-> v.proposalDate[3]]
                /\ row.bonus_amount = v.bonusAmount
                /\ row.reason = v.reason
                /\ \A s \in store : s.id # row.id
                /\ store' = store \cup {row}]_vars

\* a create with a name in mixed case was answered 201 and its record is
\* stored
C7_Witness ==
  \E r \in Reqs :
    /\ DoneCreate(r) /\ req[r].resp.status = 201
    /\ req[r].resp.rows[1] \in store
    /\ req[r].values.employeeName = VeeraRaghava

\* the names stored for an employee_id
StoredNames(rows, id) == {s.employee_name : s \in RowsOfEmployee(rows, id)}

\* r is an answered create or search that names an employee and supplies a
\* name, well formed, not failed by the store, and overlapping no other
\* request (so that the rows stored when it was received are the rows its
\* queries read)
NameSupplied(r) ==
  /\ req[r].pc = "done" /\ ~StoreFault(r) /\ ~overlapped[r]
  /\ \/ req[r].kind = "create" /\ WellFormed(req[r].values)
     \/ /\ req[r].kind = "search"
        /\ req[r].values.employeeID # <<>> /\ req[r].values.employeeName # <<>>

\* the employee of r was stored when r was received, under names that all
\* differ from the name r supplies / that all equal it up to letter case
KnownUnderOtherName(r) ==
  /\ StoredNames(snap[r], req[r].values.employeeID) # {}
  /\ \A n \in StoredNames(snap[r], req[r].values.employeeID) :
       ~SameName(n, req[r].values.employeeName)

KnownUnderSameName(r) ==
  /\ StoredNames(snap[r], req[r].values.employeeID) # {}
  /\ \A n \in StoredNames(snap[r], req[r].values.employeeID) :
       SameName(n, req[r].values.employeeName)

\* C8 as claimed: a create or search with a stored employee_id and a name
\* that differs from the stored name up to letter case fails with 400 and
\* correctName set to the stored name; a name that differs only in letter
\* case is no mismatch.
C8_Original ==
  \A r \in Reqs :
    NameSupplied(r)
    => /\ KnownUnderOtherName(r)
          => /\ req[r].resp.status = 400
             /\ req[r].resp.correctName \in StoredNames(store, req[r].values.employeeID)
       /\ KnownUnderSameName(r)
          => req[r].resp.error \notin {MsgNameMismatch, MsgSearchMismatch}

\* C8, amended: a create or search that overlaps no other request, for an
\* employee_id stored under names that all differ from the supplied name up
\* to letter case, fails with 400; correctName is a stored name, except for
\* a create whose employee already has a proposal in the month of
\* proposalDate: that one is answered 'already submitted for this month',
\* with the stored name in existingProposal.employee_name and no
\* correctName.  A name that differs only in letter case from every stored
\* name is no mismatch.
C8_NameMismatchRefused ==
  \A r \in Reqs :
    NameSupplied(r)
    => /\ KnownUnderOtherName(r)
          => /\ req[r].resp.status = 400
             /\ \/ /\ req[r].resp.error \in {MsgNameMismatch, MsgSearchMismatch}
                   /\ req[r].resp.correctName
                        \in StoredNames(snap[r], req[r].values.employeeID)
                   /\ req[r].kind = "create"
                        => \A s \in snap[r] : ~SameMonth(s, req[r].values)
                \/ /\ req[r].kind = "create"
                   /\ req[r].resp.error = MsgSameMonth
                   /\ \E s \in snap[r] : SameMonth(s, req[r].values)
                   /\ req[r].resp.existingProposal[1].employee_name
                        \in StoredNames(snap[r], req[r].values.employeeID)
       /\ KnownUnderSameName(r)
          => req[r].resp.error \notin {MsgNameMismatch, MsgSearchMismatch}

\* a create for a stored employee under another name was refused with
\* correctName set to the stored name
C8_Witness ==
  \E r \in Reqs :
    /\ NameSupplied(r) /\ req[r].kind = "create" /\ KnownUnderOtherName(r)
    /\ req[r].values.employeeName = PavanKumar
    /\ req[r].resp.error = MsgNameMismatch
    /\ req[r].resp.correctName = VeeraRaghava

\* a step of a create whose bonusAmount is below 100 answers it 400 and
\* leaves the table as it was
LowAmountStep ==
  \A r \in Reqs :
    (/\ req'[r] # req[r] /\ req'[r].kind = "create"
     /\ req'[r].values.bonusAmount < 100)
    => /\ req'[r].pc = "done"
       /\ req'[r].resp.status = 400
       /\ store' = store

\* C9: a create with an integer bonusAmount below 100 is answered with a 400
\* client error and inserts nothing; a create with bonusAmount exactly 100
\* that passes all other checks is answered 201; every stored proposal has
\* bonus_amount >= 100.
C9_MinimumBonus ==
  /\ [][LowAmountStep]_vars
  /\ [](\A r \in Reqs :
          Unobstructed(r) /\ req[r].values.bonusAmount = 100
          => req[r].resp.status = 201 /\ req[r].resp.rows[1].bonus_amount = 100)
  /\ [](\A s \in store : s.bonus_amount >= 100)

\* a create with bonusAmount 100 was answered 201 while one with 99 was
\* refused for its amount
C9_Witness ==
  \E a, b \in Reqs :
    /\ Unobstructed(a) /\ req[a].values.bonusAmount = 100
    /\ req[a].resp.status = 201 /\ req[a].resp.rows[1] \in store
    /\ DoneCreate(b) /\ req[b].values.bonusAmount = 99
    /\ req[b].resp.status = 400 /\ req[b].resp.error = MsgMinBonus

\* 'ATS0' followed by three digits that are not '000', 7 characters in all
IdOk(e) ==
  /\ Len(e) = 7
  /\ e[1] = "A" /\ e[2] = "T" /\ e[3] = "S" /\ e[4] = "0"
  /\ \A i \in 5..7 : e[i] \in {"0","1","2","3","4","5","6","7","8","9"}
  /\ ~(e[5] = "0" /\ e[6] = "0" /\ e[7] = "0")

\* C10: a create that reaches the ID check (all five fields present, the
\* amount at least 100) gets past it only if employeeID is 'ATS0' followed
\* by three digits other than '000'; any other employeeID is answered 400
\* with the format error; every stored proposal's employee_id has that form.
C10_EmployeeIdFormat ==
  /\ \A r \in Reqs :
       (/\ req[r].kind = "create"
        /\ req[r].values.employeeName # <<>> /\ req[r].values.employeeID # <<>>
        /\ req[r].values.proposalDate # <<>> /\ req[r].values.reason # ""
        /\ req[r].values.bonusAmount >= 100)
       => IF IdOk(req[r].values.employeeID)
          THEN req[r].resp.error # MsgIdFormat
          ELSE /\ req[r].pc = "done"
               /\ req[r].resp.status = 400
               /\ req[r].resp.error = MsgIdFormat
  /\ \A s \in store : IdOk(s.employee_id)

\* 'ATS0000' was answered with the format error while a create for
\* 'ATS0100' got past the ID check
C10_Witness ==
  \E a, b \in Reqs :
    /\ DoneCreate(a)
    /\ req[a].values.employeeID = <<"A","T","S","0","0","0","0">>
    /\ req[a].resp.status = 400 /\ req[a].resp.error = MsgIdFormat
    /\ req[b].kind = "create" /\ req[b].pc \in {"month", "name", "insert"}
    /\ req[b].values.employeeID = <<"A","T","S","0","1","0","0">>

\* C11: the process starts to listen only in the step that follows a
\* successful return of initializeDatabase, and no request is taken before;
\* once the fifth attempt has failed (the throw) nothing but the exit with
\* code 1 follows; listening and exited are final and entered from
\* initialization only, so a process that exits has never listened; and the
\* process does leave initialization: it listens or it exits.
C11_ListenOnlyAfterInit ==
  /\ [][/\ initPc = "thrown" => initPc' = "thrown"
        /\ IF proc' = proc THEN TRUE
           ELSE IF proc' = "listening"
           THEN /\ proc = "init" /\ initPc = "return"
                /\ tableExists /\ indexExists /\ exitCode = -1
           ELSE /\ proc' = "exited"
                /\ proc = "init" /\ initPc = "thrown" /\ retries = maxRetries
                /\ exitCode' = 1]_vars
  /\ [](proc # "listening" => \A r \in Reqs : req[r].pc = "idle")
  /\ [](proc = "exited" => exitCode = 1)
  /\ <>(proc = "listening" \/ proc = "exited")

\* five attempts failed and the process has exited with code 1, no request
\* taken
C11_Witness ==
  /\ proc = "exited" /\ exitCode = 1 /\ retries = maxRetries
  /\ \A r \in Reqs : req[r].pc = "idle"

\* the generic message of the handler of a kind of request
GenericMessage(kind) ==
  IF kind = "create" THEN "Server error while creating bonus"
  ELSE IF kind = "list" THEN "Server error while fetching bonuses"
  ELSE "Server error while searching bonuses"

\* in this step the server takes a new request on its first free slot, and
\* the record on slot r is that request or is dropped
TakesRequest(r) ==
  /\ proc = "listening"
  /\ IF req'[r].kind = "none"
     THEN /\ req'[r].pc = "idle"
          /\ \E q \in Reqs \ {r} :
               /\ ~InFlight(q) /\ req'[q].kind # "none" /\ snap'[q] = store
               /\ \A o \in Reqs : o < q => InFlight(o)
     ELSE /\ \A o \in Reqs : o < r => InFlight(o)
          /\ snap'[r] = store

\* C12: a request whose statement the store failed is answered in the step
\* of the failure: a create whose INSERT got 23505 with 400 'Duplicate
\* entry detected', a create, list or search with any other failure with 500
\* and the generic message of its handler; 23505 arises at the INSERT only;
\* a request has an answer exactly when its handler is done, and the answer
\* of a done request never changes (its record changes only when the server
\* takes a new request).
C12_StoreFailuresAnswered ==
  /\ [](\A r \in Reqs :
          req[r].err # ""
          => /\ req[r].pc = "done"
             /\ req[r].resp.correctName = <<>> /\ req[r].resp.existingProposal = <<>>
             /\ req[r].resp.rows = <<>>
             /\ IF req[r].err = "23505"
                THEN /\ req[r].kind = "create"
                     /\ req[r].resp.status = 400
                     /\ req[r].resp.error = "Duplicate entry detected"
                ELSE /\ req[r].resp.status = 500
                     /\ req[r].kind \in {"create", "list", "search"}
                          => req[r].resp.error = GenericMessage(req[r].kind))
  /\ [](\A r \in Reqs : (req[r].pc = "done") <=> (req[r].resp.status # 0))
  /\ [][\A r \in Reqs :
          /\ (req'[r].err = "23505" /\ req[r].err # "23505")
               => req[r].pc = "insert"
          /\ (req[r].pc = "done" /\ req'[r] # req[r]) => TakesRequest(r)]_vars

\* a create lost the race to the INSERT: the index refused its row, which had
\* drawn a serial id, and the create was answered 400 'Duplicate entry
\* detected'
C12_Witness ==
  \E r \in Reqs :
    /\ DoneCreate(r) /\ req[r].err = "23505"
    /\ req[r].resp = Response(400, MsgDuplicate, <<>>, <<>>, <<>>)
    /\ nextId > Cardinality(store) + 1

\* the rows of the table when initializeDatabase has returned
SeededRows == {NewRow(1, SampleValues[1]), NewRow(2, SampleValues[2])}

\* r is an answered create for ATS0123 dated in April 2025, well formed and
\* not failed by the store
AprilCreate(r) ==
  /\ DoneCreate(r) /\ Served(r)
  /\ req[r].values.employeeID = ATS0123
  /\ req[r].values.proposalDate[1] = 2025 /\ req[r].values.proposalDate[2] = 4

\* C13 as claimed: on the service as it stands after startup the create for
\* ATS0123, 'Veera Raghava', 2025-04-24, 5000 is answered 201 with a record.
C13_Original ==
  \A r \in Reqs :
    (AprilCreate(r) /\ ~overlapped[r] /\ snap[r] = SeededRows
     /\ req[r].values = SampleBody)
    => req[r].resp.status = 201 /\ Len(req[r].resp.rows) = 1

\* C13, amended: after startup the table holds the sample proposal of
\* ATS0123 dated 2025-04-24, so the create for ATS0123 dated 2025-04-24 is
\* answered 400 'already submitted for this month' with the id (1) and name
\* of the sample proposal, and so is a create dated 2025-04-28; neither is
\* answered 201 and neither adds a proposal of ATS0123 in April 2025.
C13_SampleCreateRefused ==
  /\ \A r \in Reqs :
       AprilCreate(r)
       => /\ req[r].resp.status = 400
          /\ req[r].resp.error = MsgSameMonth
          /\ req[r].resp.existingProposal = <<[id |-> 1, employee_name |-> VeeraRaghava]>>
          /\ req[r].resp.rows = <<>>
  /\ proc = "listening"
     => {s \in store : s.employee_id = ATS0123 /\ s.proposal_date.year = 2025
                         /\ s.proposal_date.month = 4}
          = {NewRow(1, SampleValues[1])}

\* the first request after startup was the create for ATS0123 dated
\* 2025-04-24, and it was refused for the month
C13_Witness ==
  \E r \in Reqs :
    /\ AprilCreate(r) /\ ~overlapped[r] /\ snap[r] = SeededRows
    /\ req[r].values = SampleBody
    /\ req[r].resp.status = 400 /\ req[r].resp.error = MsgSameMonth
    /\ store = SeededRows

\* a field of the body is missing or empty
FieldMissing(v) ==
  \/ v.employeeName = <<>> \/ v.employeeID = <<>> \/ v.proposalDate = <<>>
  \/ v.bonusAmount = 0 \/ v.reason = ""

\* the body fails one of the checks (1) to (3)
FailsEarly(v) == FieldMissing(v) \/ v.bonusAmount < 100 \/ ~IdOk(v.employeeID)

\* r is answered 400 with the message msg, no statement sent to the store
RefusedEarly(r, msg) ==
  /\ req[r].pc = "done" /\ req[r].err = ""
  /\ req[r].resp = Response(400, msg, <<>>, <<>>, <<>>)

\* a step that takes a create failing one of the checks (1) to (3) leaves
\* the table and its serial as they were
EarlyRefusalAsksNothing ==
  \A r \in Reqs :
    (req'[r] # req[r] /\ req'[r].kind = "create" /\ FailsEarly(req'[r].values))
    => /\ store' = store /\ nextId' = nextId
       /\ req'[r].pc = "done"

\* C14: the answer of a create is that of the first check that fails, in
\* the order (1) a field missing or empty, (2) bonusAmount below 100, (3)
\* the format of employeeID, (4) a proposal of the employee stored in the
\* month, (5) the supplied name differing from the stored names, (6) the
\* INSERT.  A create that fails (1), (2) or (3) is answered in the step that
\* takes it, the store not asked; (4) to (6) are stated of a create that
\* overlaps no other request, with a valid date and a name that fits the
\* column, the store answering.  A same-month conflict with a mismatching
\* name is answered 'already submitted for this month'.
C14_CheckOrder ==
  /\ [](\A r \in Reqs :
          req[r].kind = "create"
          => LET v == req[r].values IN
             IF FieldMissing(v) THEN RefusedEarly(r, MsgAllFields)
             ELSE IF v.bonusAmount < 100 THEN RefusedEarly(r, MsgMinBonus)
             ELSE IF ~IdOk(v.employeeID) THEN RefusedEarly(r, MsgIdFormat)
             ELSE (DoneCreate(r) /\ Served(r) /\ ~overlapped[r])
                  => IF \E s \in snap[r] : SameMonth(s, v)
                     THEN /\ req[r].resp.status = 400
                          /\ req[r].resp.error = MsgSameMonth
                          /\ req[r].resp.correctName = <<>>
                     ELSE IF KnownUnderOtherName(r)
                     THEN /\ req[r].resp.status = 400
                          /\ req[r].resp.error = MsgNameMismatch
                     ELSE (KnownUnderSameName(r)
                           \/ StoredNames(snap[r], v.employeeID) = {})
                          => req[r].resp.status = 201)
  /\ [][EarlyRefusalAsksNothing]_vars

\* a create with a same-month conflict and a mismatching name was answered
\* 'already submitted for this month', and a create with an amount below 100
\* and a malformed employeeID was answered for its amount
C14_Witness ==
  \E a, b \in Reqs :
    /\ DoneCreate(a) /\ Served(a) /\ ~overlapped[a]
    /\ \E s \in snap[a] : SameMonth(s, req[a].values)
    /\ KnownUnderOtherName(a)
    /\ req[a].resp.error = MsgSameMonth
    /\ DoneCreate(b) /\ req[b].values.bonusAmount = 99
    /\ ~IdOk(req[b].values.employeeID) /\ req[b].values.employeeName # <<>>
    /\ req[b].resp.error = MsgMinBonus

\* the step is the INSERT of create r, answered 201
Creates(r) ==
  /\ req[r].kind = "create" /\ req[r].pc = "insert"
  /\ req'[r].pc = "done" /\ req'[r].resp.status = 201

\* C15: a step of a request handler (health, list, search or create, taken
\* or continued) leaves the stored proposals exactly as they were, unless
\* it is the INSERT of a create answered 201, which adds the one proposal
\* it answers with; so a create answered 400 or 500, the loser of the insert
\* race included, changes nothing.
C15_OnlyCreatedChangesStore ==
  [][(\E q \in Reqs : req'[q] # req[q])
     => IF \E r \in Reqs : Creates(r)
        THEN \E r \in Reqs :
               /\ Creates(r)
               /\ req'[r].resp.rows[1] \notin store
               /\ store' = store \cup {req'[r].resp.rows[1]}
        ELSE store' = store]_vars

\* two creates raced to the INSERT from the same table; the table is now
\* that table and the winner's proposal, the loser answered 400
C15_Witness ==
  \E a, b \in Reqs :
    /\ DoneCreate(a) /\ DoneCreate(b)
    /\ req[a].err = "23505" /\ req[a].resp.status = 400
    /\ req[b].resp.status = 201
    /\ snap[a] = snap[b]
    /\ store = snap[a] \cup {req[b].resp.rows[1]}
    /\ req[b].resp.rows[1] \notin snap[a]

\* the rows of the latest proposal_date among `rows`
LatestOf(rows) ==
  {s \in rows :
     \A t \in rows :
       \/ s.proposal_date.year > t.proposal_date.year
       \/ /\ s.proposal_date.year = t.proposal_date.year
          /\ s.proposal_date.month > t.proposal_date.month
       \/ /\ s.proposal_date.year = t.proposal_date.year
          /\ s.proposal_date.month = t.proposal_date.month
          /\ s.proposal_date.day >= t.proposal_date.day}

\* the elements of a sequence
Range(q) == {q[i] : i \in 1..Len(q)}

\* C16: a search without employeeID is answered 400 with no query made (so
\* never a store error); otherwise, the store answering, no stored record of
\* the employeeID gives 404; a supplied name that differs, up to letter case,
\* from the name of at least one stored record of the employeeID gives 400
\* with no record returned and correctName the name of a record of the
\* latest proposal_date; otherwise 200 with exactly the records of the
\* employeeID, whose names then all equal a supplied name up to letter case.
C16_SearchOrder ==
  \A r \in Reqs :
    req[r].kind = "search"
    => LET v == req[r].values
           mine == {s \in snap[r] : s.employee_id = v.employeeID}
       IN /\ req[r].pc = "done"
          /\ IF v.employeeID = <<>>
             THEN /\ req[r].err = ""
                  /\ req[r].resp = Response(400, MsgIdRequired, <<>>, <<>>, <<>>)
             ELSE req[r].err = ""
                  => IF mine = {}
                     THEN req[r].resp = Response(404, MsgNotFound, <<>>, <<>>, <<>>)
                     ELSE IF /\ v.employeeName # <<>>
                             /\ \E s \in mine : ~SameName(s.employee_name, v.employeeName)
                     THEN /\ req[r].resp.status = 400
                          /\ req[r].resp.error = MsgSearchMismatch
                          /\ req[r].resp.rows = <<>>
                          /\ req[r].resp.correctName
                               \in {s.employee_name : s \in LatestOf(mine)}
                     ELSE /\ req[r].resp.status = 200
                          /\ Range(req[r].resp.rows) = mine
                          /\ Len(req[r].resp.rows) = Cardinality(mine)
                          /\ v.employeeName # <<>>
                               => \A i \in 1..Len(req[r].resp.rows) :
                                    SameName(req[r].resp.rows[i].employee_name,
                                             v.employeeName)

\* an employee is stored under two names; a search under one of them was
\* answered 400, the records under that name not returned
C16_Witness ==
  \E r \in Reqs :
    /\ req[r].kind = "search" /\ req[r].pc = "done" /\ req[r].err = ""
    /\ \E s, t \in snap[r] :
         /\ s.employee_id = req[r].values.employeeID
         /\ t.employee_id = req[r].values.employeeID
         /\ SameName(s.employee_name, req[r].values.employeeName)
         /\ ~SameName(t.employee_name, req[r].values.employeeName)
    /\ req[r].resp.status = 400 /\ req[r].resp.rows = <<>>
    /\ req[r].resp.correctName # <<>>

\* the sequence lists rows in non-increasing order of proposal_date
DateDescending(q) ==
  \A i \in 1..Len(q) : \A j \in 1..Len(q) :
    i < j
    => LET a == q[i].proposal_date
           b == q[j].proposal_date
       IN \/ a.year > b.year
          \/ a.year = b.year /\ a.month > b.month
          \/ a.year = b.year /\ a.month = b.month /\ a.day >= b.day

\* C17: a list answered 200 returns the proposals stored when its query
\* ran, a search answered 200 those of the requested employeeID: every one
\* of them, each once, no other record, in non-increasing order of
\* proposal_date.
C17_ListAndSearchResults ==
  \A r \in Reqs :
    (req[r].kind \in {"list", "search"} /\ req[r].pc = "done"
     /\ req[r].resp.status = 200)
    => LET expected ==
             IF req[r].kind = "list" THEN snap[r]
             ELSE {s \in snap[r] : s.employee_id = req[r].values.employeeID}
       IN /\ Range(req[r].resp.rows) = expected
          /\ Len(req[r].resp.rows) = Cardinality(expected)
          /\ DateDescending(req[r].resp.rows)

\* a list returned the two sample proposals and two created ones, and among
\* them the proposals of one employee in two different months
C17_Witness ==
  \E r \in Reqs :
    /\ req[r].kind = "list" /\ req[r].pc = "done" /\ req[r].resp.status = 200
    /\ Len(req[r].resp.rows) = 4
    /\ \E i, j \in 1..4 :
         /\ i < j
         /\ req[r].resp.rows[i].employee_id = req[r].resp.rows[j].employee_id
         /\ req[r].resp.rows[i].proposal_date # req[r].resp.rows[j].proposal_date

\* the statements of one attempt, and what follows each when it succeeds
AttemptPcs == {"connect", "drop", "create", "index", "count", "seed"}

FollowingPcs(pc) ==
  IF pc = "connect" THEN {"drop"}
  ELSE IF pc = "drop" THEN {"create"}
  ELSE IF pc = "create" THEN {"index"}
  ELSE IF pc = "index" THEN {"count"}
  ELSE IF pc = "count" THEN {"seed", "return"}
  ELSE IF pc = "seed" THEN {"return"}
  ELSE IF pc = "wait" THEN {"connect"}
  ELSE IF pc = "return" THEN {"returned"}
  ELSE {}

\* a step of initializeDatabase: a statement succeeds and the next follows
\* (after the wait, a new attempt from its first statement), or a statement
\* of an attempt fails, which counts the attempt and leads to the wait
\* after the first four failures and to the throw after the fifth
AttemptStep ==
  initPc' # initPc
  => \/ /\ initPc' \in FollowingPcs(initPc)
        /\ retries' = IF initPc = "return" THEN 0 ELSE retries
     \/ /\ initPc \in AttemptPcs
        /\ retries' = retries + 1
        /\ initPc' = IF retries' <= 4 THEN "wait" ELSE "thrown"

\* C18: initializeDatabase makes at most 5 attempts and ends: it returns
\* when the last statement of an attempt has succeeded, every statement of
\* that attempt having succeeded in turn, and then makes no further attempt;
\* after each of the first four failed attempts it waits and starts a new
\* attempt; after the fifth it throws without waiting; and every run of it
\* reaches the return or the throw.
C18_BoundedRetries ==
  /\ [][AttemptStep]_vars
  /\ [](retries \in 0..5)
  /\ [](initPc = "wait" => retries \in 1..4)
  /\ [](initPc = "thrown" => retries = 5)
  /\ [](initPc \in AttemptPcs => retries \in 0..4)
  /\ [](initPc = "return" => tableExists /\ indexExists /\ retries \in 0..4)
  /\ <>(initPc \in {"return", "returned", "thrown"})

\* the fifth attempt succeeded after four failed ones
C18_Witness ==
  /\ proc = "init" /\ initPc = "return" /\ retries = 4
  /\ tableExists /\ indexExists

\* all rows of one employee_id carry the same name up to letter case
NamesAgree(rows) ==
  \A s, t \in rows :
    s.employee_id = t.employee_id => SameName(s.employee_name, t.employee_name)

\* C19: the table initializeDatabase leaves carries one name per
\* employee_id, and a step of a create that overlaps no other request keeps
\* it so: if the names agreed before the step they agree after it.  Hence
\* they agree in every state of an execution whose requests do not overlap.
C19_NamesAgreeWithoutOverlap ==
  /\ [](initPc = "return" => NamesAgree(store))
  /\ [][(/\ store' # store
          /\ (\E q \in Reqs : req'[q] # req[q])
          /\ (\A r \in Reqs :
                req'[r] # req[r] => ~overlapped[r] /\ ~overlapped'[r])
          /\ NamesAgree(store))
         => NamesAgree(store')]_vars

\* a create that overlapped no other request added a second proposal of an
\* employee, under the stored name written in another letter case, and a
\* later create under another name was refused: the names agree
C19_Witness ==
  /\ NamesAgree(store)
  /\ \E s, t \in store :
       /\ s.employee_id = t.employee_id
       /\ s.employee_name # t.employee_name
  /\ \E r \in Reqs :
       /\ DoneCreate(r) /\ ~overlapped[r]
       /\ req[r].resp.error = MsgNameMismatch
       /\ Cardinality({s \in snap[r] : s.employee_id = req[r].values.employeeID}) = 2

\* the first and the second sample proposal, with the ids of a new table
SampleRowOne ==
  [id |-> 1, employee_name |-> VeeraRaghava, employee_id |-> ATS0123,
   proposal_date |-> [year |-> 2025, month |-> 4, day |-> 24],
   bonus_amount |-> 5000, reason |-> SampleValues[1].reason]

SampleRowTwo ==
  [id |-> 2, employee_name |-> PavanKumar, employee_id |-> ATS0456,
   proposal_date |-> [year |-> 2025, month |-> 4, day |-> 20],
   bonus_amount |-> 7500, reason |-> SampleValues[2].reason]

\* C20: when initializeDatabase returns, the table holds exactly the two
\* sample proposals, once each, whatever the database held when the process
\* started and however many attempts failed before; and from the DROP of an
\* attempt on, the table never holds anything but sample proposals, nor one
\* of them twice.
C20_ExactlySeedsAtReturn ==
  /\ initPc = "return"
     => /\ store = {SampleRowOne, SampleRowTwo}
        /\ nextId = 3
        /\ tableExists /\ indexExists
  /\ (proc = "init" /\ initPc \in {"create", "index", "count", "seed"})
     => store = {}
  /\ (proc = "init" /\ store # {} /\ store # PriorRows)
     => store = {SampleRowOne, SampleRowTwo}

\* initializeDatabase has returned with the two sample proposals after two
\* failed attempts
C20_Witness ==
  /\ proc = "init" /\ initPc = "return" /\ retries = 2
  /\ store = {SampleRowOne, SampleRowTwo}

====
